---- MODULE Spec2Model ----
(***************************************************************************)
(* A model of geonode/upload/forms.py: the upload size guard and bundle    *)
(* validation of LayerUploadForm, and the dynamic construction and the     *)
(* clean step of TimeForm.                                                 *)
(***************************************************************************)
EXTENDS Integers, Sequences, FiniteSets, TLC

(***************************************************************************)
(* Bounds of the model.  Byte sizes are multiples of SizeUnit (50 MB).     *)
(***************************************************************************)
SizeUnit == 52428800
MaxFileUnits == 2
MaxLimitUnits == 3
MaxNames == 3

VARIABLES
    ogc_geoserver,      \* check_ogc_backend(geoserver.BACKEND_PACKAGE), fixed per deployment
    limits,             \* the persisted UploadSizeLimit records
    files,              \* self.files of the form being handled: <<field_name, django_file>> pairs
    permissions_valid,  \* whether the submitted permissions payload passes its field validation
    op,                 \* "building", or the operation that ran on the form
    trace,              \* the external calls the operation made, in order
    classifier_args,    \* the arguments of every validate_uploaded_files call of the operation
    classifier_result,  \* what validate_uploaded_files did in the operation (NotCalled if not called)
    total_size,         \* total_size of validate_files_sum_of_sizes (-1 while it has not run)
    created,            \* how many records create_default_limit has created so far
    raised,             \* the exception the operation raised (NoError when it returned)
    cleaned,            \* self.cleaned_data when the operation ended
    tf_step,            \* TimeForm: "new", "built" (after __init__) or "cleaned" (after clean)
    kwargs,             \* the time_names, text_names and year_names passed to TimeForm(...)
    names,              \* self._time_names, self._text_names, self._year_names
    fields,             \* self.fields
    selected,           \* self.cleaned_data when TimeForm.clean starts
    cleaned_data,       \* self.cleaned_data when TimeForm.clean ends
    tf_raised           \* the exception TimeForm.clean raised (NoError when it returned)

upload_vars == <<ogc_geoserver, limits, files, permissions_valid, op, trace,
                 classifier_args, classifier_result, total_size, created, raised, cleaned>>

time_vars == <<tf_step, kwargs, names, fields, selected, cleaned_data, tf_raised>>

vars == <<upload_vars, time_vars>>

(***************************************************************************)
(* LayerUploadForm: class attributes                                       *)
(***************************************************************************)
\* The field names a request may submit files under in this model: the required
\* base_file, one optional companion, and the two names the size guard skips.
SubmittedFieldNames == {"base_file", "dbf_file", "zip_file", "shp_file"}

\* The FileFields the form declares, among SubmittedFieldNames.
DeclaredFileFields == {"base_file", "dbf_file"}

spatial_files(geoserver) ==
    <<"base_file", "dbf_file", "shx_file", "prj_file", "xml_file">>
        \o (IF geoserver THEN <<"sld_file">> ELSE <<>>)

FileSizes == {k * SizeUnit : k \in 1..MaxFileUnits}

django_file(field_name, size) == [name |-> field_name, size |-> size]

(***************************************************************************)
(* Errors                                                                  *)
(***************************************************************************)
NoFormat == [int |-> 0, frac |-> -1, unit |-> ""]

NoError == [type |-> "none", text |-> "", limit |-> NoFormat]

ValidationError(text, limit) == [type |-> "ValidationError", text |-> text, limit |-> limit]

(***************************************************************************)
(* django.template.defaultfilters.filesizeformat: "%d byte(s)" below 1 KB, *)
(* otherwise the value in the largest fitting unit rounded to one decimal  *)
(* (Python's round: ties go to the even tenth; bytes / 2^k is exact).      *)
(* The result is the number's integer part, its tenth (-1: none printed)   *)
(* and the unit.  Sizes of the model are below 2^31, so the TB and PB      *)
(* units are never reached; 10 * bytes / unit is computed as               *)
(* 10 * (bytes div unit) + 5 * (bytes mod unit) / (unit / 2) to stay       *)
(* within that range.                                                      *)
(***************************************************************************)
KB == 1024
MB == 1048576
GB == 1073741824

round_tenths(bytes, unit) ==
    LET half == unit \div 2
        q == (10 * (bytes \div unit)) + ((5 * (bytes % unit)) \div half)
        r == (5 * (bytes % unit)) % half
    IN  IF 2 * r > half THEN q + 1
        ELSE IF 2 * r = half THEN q + (q % 2)
        ELSE q

filesize_number_format(bytes, unit, label) ==
    LET t == round_tenths(bytes, unit)
    IN  [int |-> t \div 10, frac |-> t % 10, unit |-> label]

filesizeformat(bytes) ==
    IF bytes < KB THEN [int |-> bytes, frac |-> -1,
                        unit |-> IF bytes = 1 THEN "byte" ELSE "bytes"]
    ELSE IF bytes < MB THEN filesize_number_format(bytes, KB, "KB")
    ELSE IF bytes < GB THEN filesize_number_format(bytes, MB, "MB")
    ELSE filesize_number_format(bytes, GB, "GB")

(***************************************************************************)
(* UploadSizeLimit (geonode.upload.models): records keyed by slug.         *)
(***************************************************************************)
DefaultMaxSize == 104857600

SizeLimitSlug == "total_upload_size_sum"

UploadSizeLimit(slug, max_size) == [slug |-> slug, max_size |-> max_size]

\* UploadSizeLimit.objects.get(slug=...): the records with that slug.
objects_get(db, slug) == {r \in db : r.slug = slug}

\* UploadSizeLimit.objects.create_default_limit(): the record it persists.
create_default_limit == UploadSizeLimit(SizeLimitSlug, DefaultMaxSize)

\* _get_uploads_max_size giving the default on a miss without saving it
get_uploads_max_size_unsaved(db) ==
    LET found == objects_get(db, SizeLimitSlug)
    IN  [limits |-> db, created |-> 0,
         max_size |-> IF found # {} THEN (CHOOSE r \in found : TRUE).max_size
                      ELSE DefaultMaxSize,
         trace |-> <<"UploadSizeLimit.objects.get">>]

\* _get_uploads_max_size putting the default in place on every call
get_uploads_max_size_recreate(db) ==
    [limits |-> (db \ objects_get(db, SizeLimitSlug)) \cup {create_default_limit},
     created |-> 1,
     max_size |-> create_default_limit.max_size,
     trace |-> <<"UploadSizeLimit.objects.get", "create_default_limit">>]

(***************************************************************************)
(* LayerUploadForm._get_uploads_max_size: the record read by slug, or the  *)
(* default record created on a miss.  Gives the table afterwards, the      *)
(* max_size returned and the calls made.                                   *)
(***************************************************************************)
get_uploads_max_size(db) ==
    LET found == objects_get(db, SizeLimitSlug)
    IN  IF found # {}
        THEN [limits |-> db, created |-> 0,
              max_size |-> (CHOOSE r \in found : TRUE).max_size,
              trace |-> <<"UploadSizeLimit.objects.get">>]
        ELSE [limits |-> db \cup {create_default_limit}, created |-> 1,
              max_size |-> create_default_limit.max_size,
              trace |-> <<"UploadSizeLimit.objects.get", "create_default_limit">>]

(***************************************************************************)
(* LayerUploadForm._get_uploaded_files_total_size                          *)
(***************************************************************************)
\* excluded_files without shp_file
excluded_files_short == {"zip_file"}

excluded_files == {"zip_file", "shp_file"}

RECURSIVE sum(_)
sum(sizes) == IF sizes = <<>> THEN 0 ELSE Head(sizes) + sum(Tail(sizes))

\* [x[2] for x in items if keep(x[1])], as a sequence in the items' order
RECURSIVE select_files(_, _)
select_files(items, skipped) ==
    IF items = <<>> THEN <<>>
    ELSE (IF Head(items)[1] \in skipped THEN <<>> ELSE <<Head(items)[2]>>)
            \o select_files(Tail(items), skipped)

get_uploaded_files_total_size(fs) ==
    LET uploaded_files == select_files(fs, excluded_files)
        uploaded_files_sizes == [i \in 1..Len(uploaded_files) |-> uploaded_files[i].size]
    IN  sum(uploaded_files_sizes)

(***************************************************************************)
(* LayerUploadForm._get_uploaded_files                                     *)
(***************************************************************************)
\* _get_uploaded_files without its filter
get_all_files(fs) == select_files(fs, {})

get_uploaded_files(fs) == select_files(fs, {"base_file"})

(***************************************************************************)
(* LayerUploadForm.validate_files_sum_of_sizes                             *)
(***************************************************************************)
\* the comparison taken as >=
exceeds_or_equal(total, max_size) == total >= max_size

exceeds(total, max_size) == total > max_size

size_error_message(max_size, total) ==
    ValidationError("Total upload size exceeds {}. Please try again with smaller files.",
                    filesizeformat(max_size))

validate_files_sum_of_sizes(db, fs) ==
    LET got == get_uploads_max_size(db)
        total == get_uploaded_files_total_size(fs)
    IN  [limits |-> got.limits, created |-> got.created,
         trace |-> got.trace,
         total_size |-> total,
         raised |-> IF exceeds(total, got.max_size)
                    THEN size_error_message(got.max_size, total)
                    ELSE NoError]

(***************************************************************************)
(* Field validation (forms.Form.clean and self.errors): base_file and      *)
(* permissions are required; cleaned_data holds every declared field that  *)
(* validated, an optional file field without a file as None.               *)
(***************************************************************************)
NoneValue == [name |-> "None", size |-> 0]

field_names(fs) == {fs[i][1] : i \in 1..Len(fs)}

file_of(fs, field_name) ==
    LET i == CHOOSE j \in 1..Len(fs) : fs[j][1] = field_name IN fs[i][2]

errors(fs, perms_ok) ==
    (IF "base_file" \in field_names(fs) THEN {} ELSE {"base_file"})
        \cup (IF perms_ok THEN {} ELSE {"permissions"})

super_clean(fs, perms_ok) ==
    LET valid == (DeclaredFileFields \cup {"permissions"}) \ errors(fs, perms_ok)
    IN  [k \in valid |->
            IF k = "permissions" THEN [name |-> "permissions", size |-> 0]
            ELSE IF k \in field_names(fs) THEN file_of(fs, k)
            ELSE NoneValue]

(***************************************************************************)
(* validate_uploaded_files (geonode.upload.upload_validators): returns the *)
(* valid extensions or raises.  Its outcome is an input of the model.      *)
(***************************************************************************)
ValidExtensions == {{"shp", "shx", "prj", "dbf"}, {"tif", "tiff", "geotif", "geotiff"}}

ClassifierOutcomes ==
    {[raises |-> FALSE, value |-> v, error |-> NoError] : v \in ValidExtensions}
        \cup {[raises |-> TRUE, value |-> {},
               error |-> ValidationError("Invalid bundle", NoFormat)]}

(***************************************************************************)
(* LayerUploadForm.clean                                                   *)
(***************************************************************************)
NotCalled == [raises |-> FALSE, value |-> {}, error |-> NoError]

\* clean going on whatever self.errors holds
has_errors_ignored(fs, perms_ok) == FALSE

has_errors(fs, perms_ok) == errors(fs, perms_ok) # {}

clean(db, fs, perms_ok, geoserver, outcome) ==
    LET cleaned0 == super_clean(fs, perms_ok)
    IN  IF has_errors(fs, perms_ok)
        THEN [limits |-> db, created |-> 0, trace |-> <<>>, total_size |-> -1,
              classifier_args |-> <<>>, classifier_result |-> NotCalled,
              raised |-> NoError, cleaned |-> cleaned0]
        ELSE
            LET guard == validate_files_sum_of_sizes(db, fs)
                call == [cleaned |-> cleaned0,
                         uploaded_files |-> get_uploaded_files(fs),
                         field_spatial_types |-> spatial_files(geoserver)]
            IN  IF guard.raised # NoError
                THEN [limits |-> guard.limits, created |-> guard.created,
                      trace |-> guard.trace, total_size |-> guard.total_size,
                      classifier_args |-> <<>>, classifier_result |-> NotCalled,
                      raised |-> guard.raised, cleaned |-> cleaned0]
                ELSE [limits |-> guard.limits, created |-> guard.created,
                      trace |-> guard.trace \o <<"validate_uploaded_files">>,
                      total_size |-> guard.total_size,
                      classifier_args |-> <<call>>, classifier_result |-> outcome,
                      raised |-> outcome.error,
                      cleaned |-> IF outcome.raises THEN cleaned0
                                  ELSE cleaned0 @@ ("valid_extensions" :> outcome.value)]

(***************************************************************************)
(* The upload state machine                                                *)
(***************************************************************************)
\* Limits an administrator may have stored: multiples of SizeUnit, and values
\* in the byte, KB (a rounding tie) and GB ranges of filesizeformat.
StoredLimits == {k * SizeUnit : k \in 0..MaxLimitUnits} \cup {1, 1280, 1342177280}

OtherRecord == UploadSizeLimit("other_limit", 1)

NoCleaned == [k \in {} |-> NoneValue]

\* The request's next file arrives under a field name not used yet.
AttachFile ==
    /\ op = "building"
    /\ \E f \in SubmittedFieldNames \ field_names(files), s \in FileSizes :
            files' = Append(files, <<f, django_file(f, s)>>)
    /\ UNCHANGED <<ogc_geoserver, limits, permissions_valid, op, trace, classifier_args,
                   classifier_result, total_size, created, raised, cleaned>>
    /\ UNCHANGED time_vars

\* form.is_valid(): field validation, then LayerUploadForm.clean.
Clean ==
    /\ op = "building"
    /\ \E outcome \in ClassifierOutcomes :
        LET r == clean(limits, files, permissions_valid, ogc_geoserver, outcome)
        IN  /\ limits' = r.limits
            /\ created' = created + r.created
            /\ trace' = r.trace
            /\ total_size' = r.total_size
            /\ classifier_args' = r.classifier_args
            /\ classifier_result' = r.classifier_result
            /\ raised' = r.raised
            /\ cleaned' = r.cleaned
    /\ op' = "clean"
    /\ UNCHANGED <<ogc_geoserver, files, permissions_valid>>
    /\ UNCHANGED time_vars

\* form.validate_files_sum_of_sizes() called on its own.
ValidateFilesSumOfSizes ==
    /\ op = "building"
    /\ LET r == validate_files_sum_of_sizes(limits, files)
       IN  /\ limits' = r.limits
           /\ created' = created + r.created
           /\ trace' = r.trace
           /\ total_size' = r.total_size
           /\ raised' = r.raised
    /\ op' = "validate_files_sum_of_sizes"
    /\ UNCHANGED <<ogc_geoserver, files, permissions_valid, classifier_args,
                   classifier_result, cleaned>>
    /\ UNCHANGED time_vars

\* The next request: a new form over the same persisted records.
NewRequest ==
    /\ op # "building"
    /\ files' = <<>>
    /\ permissions_valid' \in BOOLEAN
    /\ op' = "building"
    /\ trace' = <<>>
    /\ classifier_args' = <<>>
    /\ classifier_result' = NotCalled
    /\ total_size' = -1
    /\ raised' = NoError
    /\ cleaned' = NoCleaned
    /\ UNCHANGED <<ogc_geoserver, limits, created>>
    /\ UNCHANGED time_vars

(***************************************************************************)
(* TimeForm                                                                *)
(***************************************************************************)
\* The attribute names a dataset may have, in ascending (str.__lt__) order.
AttributeNames == <<"observed", "reported", "updated">>

rank(a) == CHOOSE i \in 1..Len(AttributeNames) : AttributeNames[i] = a

\* A keyword argument that is None, or a list of names.
NoneNames == [is_none |-> TRUE, items |-> <<>>]

ListOf(items) == [is_none |-> FALSE, items |-> items]

\* `if names:` is false for None and for the empty list
truthy(arg) == ~arg.is_none /\ arg.items # <<>>

\* list.sort(): ascending, by insertion
RECURSIVE insert(_, _)
insert(a, sorted) ==
    IF sorted = <<>> THEN <<a>>
    ELSE IF rank(a) < rank(Head(sorted)) THEN <<a>> \o sorted
    ELSE <<Head(sorted)>> \o insert(a, Tail(sorted))

RECURSIVE sort(_)
sort(items) ==
    IF items = <<>> THEN <<>>
    ELSE insert(items[Len(items)], sort(SubSeq(items, 1, Len(items) - 1)))

ChoiceField(choices) == [type |-> "ChoiceField", choices |-> choices, required |-> FALSE]

CharField == [type |-> "CharField", choices |-> <<>>, required |-> FALSE]

IntegerField == [type |-> "IntegerField", choices |-> <<>>, required |-> FALSE]

\* The fields the class declares.
base_fields ==
    [f \in {"presentation_strategy", "precision_value", "precision_step"} |->
        IF f = "presentation_strategy" THEN CharField
        ELSE IF f = "precision_value" THEN IntegerField
        ELSE ChoiceField(<<<<"years", "years">>, <<"months", "months">>, <<"days", "days">>,
                           <<"hours", "hours">>, <<"minutes", "minutes">>,
                           <<"seconds", "seconds">>>>)]

(***************************************************************************)
(* TimeForm._build_choice: sorts the list in place and adds the field.     *)
(* Gives the fields and the list afterwards.                               *)
(***************************************************************************)
\* _build_choice without names.sort()
unsorted_names(items) == items

sorted_names(items) == sort(items)

none_choice == <<"", "<None>">>

build_choice(flds, att, arg) ==
    IF truthy(arg)
    THEN LET sorted == sorted_names(arg.items)
             choices == <<none_choice>> \o [i \in 1..Len(sorted) |-> <<sorted[i], sorted[i]>>]
         IN  [fields |-> (att :> ChoiceField(choices)) @@ flds, names |-> ListOf(sorted)]
    ELSE [fields |-> flds, names |-> arg]

has_text_names(arg) == truthy(arg)

(***************************************************************************)
(* TimeForm.__init__                                                       *)
(***************************************************************************)
init(kw) ==
    LET b1 == build_choice(base_fields, "time_attribute", kw.time_names)
        b2 == build_choice(b1.fields, "end_time_attribute", b1.names)
        b3 == build_choice(b2.fields, "text_attribute", kw.text_names)
        b4 == build_choice(b3.fields, "end_text_attribute", b3.names)
        f5 == IF has_text_names(b4.names)
              THEN ("text_attribute_format" :> CharField)
                    @@ ("end_text_attribute_format" :> CharField) @@ b4.fields
              ELSE b4.fields
        b6 == build_choice(f5, "year_attribute", kw.year_names)
        b7 == build_choice(b6.fields, "end_year_attribute", b6.names)
    IN  [fields |-> b7.fields,
         names |-> [time_names |-> b2.names, text_names |-> b4.names,
                    year_names |-> b7.names]]

(***************************************************************************)
(* TimeForm._resolve_attribute_and_type                                    *)
(***************************************************************************)
\* self.cleaned_data.get(n, None) is truthy
\* the filter taking any present key as selected
is_present(cd, n) == n \in DOMAIN cd

is_selected(cd, n) == n \in DOMAIN cd /\ cd[n] # ""

RECURSIVE resolve_attribute_and_type(_, _)
resolve_attribute_and_type(cd, name_and_types) ==
    IF name_and_types = <<>> THEN <<>>
    ELSE LET n == Head(name_and_types)[1]
             t == Head(name_and_types)[2]
         IN  (IF is_selected(cd, n) THEN <<<<cd[n], t>>>> ELSE <<>>)
                \o resolve_attribute_and_type(cd, Tail(name_and_types))

(***************************************************************************)
(* TimeForm.clean                                                          *)
(***************************************************************************)
\* the start candidates with the year field typed as text
start_candidates_mistyped ==
    <<<<"time_attribute", "Date">>, <<"text_attribute", "Text">>,
      <<"year_attribute", "Text">>>>

start_candidates ==
    <<<<"time_attribute", "Date">>, <<"text_attribute", "Text">>,
      <<"year_attribute", "Number">>>>

\* the end candidates reading the start time field
end_candidates_copied ==
    <<<<"time_attribute", "Date">>, <<"end_text_attribute", "Text">>,
      <<"end_year_attribute", "Number">>>>

end_candidates ==
    <<<<"end_time_attribute", "Date">>, <<"end_text_attribute", "Text">>,
      <<"end_year_attribute", "Number">>>>

time_clean(cd) ==
    LET starts == resolve_attribute_and_type(cd, start_candidates)
        ends == resolve_attribute_and_type(cd, end_candidates)
    IN  IF Len(starts) > 1
        THEN [raised |-> ValidationError("multiple start attributes", NoFormat),
              cleaned_data |-> cd]
        ELSE IF Len(ends) > 1
        THEN [raised |-> ValidationError("multiple end attributes", NoFormat),
              cleaned_data |-> cd]
        ELSE LET cd1 == IF Len(starts) > 0
                        THEN ("start_attribute" :> starts[1]) @@ cd ELSE cd
                 cd2 == IF Len(ends) > 0
                        THEN ("end_attribute" :> ends[1]) @@ cd1 ELSE cd1
             IN  [raised |-> NoError, cleaned_data |-> cd2]

(***************************************************************************)
(* The TimeForm state machine                                              *)
(***************************************************************************)
\* The lists of up to n names; a form is passed at most MaxNames names in all
RECURSIVE NameLists(_)
NameLists(n) ==
    IF n = 0 THEN {<<>>}
    ELSE LET shorter == NameLists(n - 1)
         IN  shorter \cup {Append(l, AttributeNames[i]) :
                              l \in {x \in shorter : Len(x) = n - 1},
                              i \in 1..Len(AttributeNames)}

NamesArguments == {NoneNames} \cup {ListOf(l) : l \in NameLists(MaxNames)}

AttributeFields ==
    {"time_attribute", "text_attribute", "year_attribute",
     "end_time_attribute", "end_text_attribute", "end_year_attribute"}

choice_values(field) == {field.choices[i][1] : i \in 1..Len(field.choices)}

\* What field validation leaves in cleaned_data for the attribute fields: for
\* each one the form has, one of its choices ("" when nothing was selected).
Selections(flds) ==
    LET present == AttributeFields \cap DOMAIN flds
        values == {""} \cup {AttributeNames[i] : i \in 1..Len(AttributeNames)}
    IN  {cd \in [present -> values] : \A f \in present : cd[f] \in choice_values(flds[f])}

NoFields == [f \in {} |-> CharField]

NoData == [f \in {} |-> ""]

NoKwargs == [time_names |-> NoneNames, text_names |-> NoneNames, year_names |-> NoneNames]

\* TimeForm(data, time_names=..., text_names=..., year_names=...)
Construct ==
    /\ tf_step = "new"
    /\ \E a \in NamesArguments, b \in NamesArguments, c \in NamesArguments :
        /\ Len(a.items) + Len(b.items) + Len(c.items) <= MaxNames
        /\ LET kw == [time_names |-> a, text_names |-> b, year_names |-> c]
               form == init(kw)
           IN  /\ kwargs' = kw
               /\ names' = form.names
               /\ fields' = form.fields
    /\ tf_step' = "built"
    /\ UNCHANGED <<selected, cleaned_data, tf_raised>>
    /\ UNCHANGED upload_vars

\* form.is_valid(): field validation, then TimeForm.clean.
TimeClean ==
    /\ tf_step = "built"
    /\ \E cd \in Selections(fields) :
        LET r == time_clean(cd)
        IN  /\ selected' = cd
            /\ cleaned_data' = r.cleaned_data
            /\ tf_raised' = r.raised
    /\ tf_step' = "cleaned"
    /\ UNCHANGED <<kwargs, names, fields>>
    /\ UNCHANGED upload_vars

\* The tables an upload may find: empty, or holding another limit's record with
\* or without the record of the total-size limit.
InitialTables ==
    {{}, {OtherRecord}}
        \cup {{OtherRecord, UploadSizeLimit(SizeLimitSlug, m)} : m \in StoredLimits}

\* A deployment about to handle upload requests; no TimeForm is in use.
Init ==
    /\ ogc_geoserver \in BOOLEAN
    /\ limits \in InitialTables
    /\ files = <<>>
    /\ permissions_valid \in BOOLEAN
    /\ op = "building"
    /\ trace = <<>>
    /\ classifier_args = <<>>
    /\ classifier_result = NotCalled
    /\ total_size = -1
    /\ created = 0
    /\ raised = NoError
    /\ cleaned = NoCleaned
    /\ tf_step = "idle"
    /\ kwargs = NoKwargs
    /\ names = NoKwargs
    /\ fields = NoFields
    /\ selected = NoData
    /\ cleaned_data = NoData
    /\ tf_raised = NoError

\* A TimeForm about to be constructed; no upload request is being handled.
TimeInit ==
    /\ ogc_geoserver = FALSE
    /\ limits = {}
    /\ files = <<>>
    /\ permissions_valid = FALSE
    /\ op = "idle"
    /\ trace = <<>>
    /\ classifier_args = <<>>
    /\ classifier_result = NotCalled
    /\ total_size = -1
    /\ created = 0
    /\ raised = NoError
    /\ cleaned = NoCleaned
    /\ tf_step = "new"
    /\ kwargs = NoKwargs
    /\ names = NoKwargs
    /\ fields = NoFields
    /\ selected = NoData
    /\ cleaned_data = NoData
    /\ tf_raised = NoError

Next ==
    \/ AttachFile
    \/ Clean
    \/ ValidateFilesSumOfSizes
    \/ NewRequest

Spec == Init /\ [][Next]_vars

TimeNext ==
    \/ Construct
    \/ TimeClean

TimeSpec == TimeInit /\ [][TimeNext]_vars

(***************************************************************************)
(* Properties of LayerUploadForm                                           *)
(***************************************************************************)
SizeErrorText == "Total upload size exceeds {}. Please try again with smaller files."

\* The error of the size guard for a limit of max_size bytes
SizeError(max_size) ==
    [type |-> "ValidationError", text |-> SizeErrorText, limit |-> filesizeformat(max_size)]

SlugRecords == {r \in limits : r.slug = "total_upload_size_sum"}

StoredMaxSize == (CHOOSE r \in SlugRecords : TRUE).max_size

RECURSIVE SizeOfFields(_)
SizeOfFields(S) ==
    IF S = {} THEN 0
    ELSE LET f == CHOOSE x \in S : TRUE
         IN  file_of(files, f).size + SizeOfFields(S \ {f})

\* The sizes of the submitted files, those under zip_file and shp_file left out
CountedTotal == SizeOfFields(field_names(files) \ {"zip_file", "shp_file"})

Calls(fn) == {i \in 1..Len(trace) : trace[i] = fn}

\* The operation that ended reached validate_files_sum_of_sizes
SizeGuardRan == op \in {"clean", "validate_files_sum_of_sizes"} /\ trace # <<>>

FieldErrors == "base_file" \notin field_names(files) \/ ~permissions_valid

\* C1: validate_files_sum_of_sizes raises exactly when the total size of the
\* counted files is strictly greater than the limit; the error names
\* filesizeformat(max_size); a total equal to or below the limit (an empty file
\* set included) passes, so that inside clean the classifier is reached.
C1_RaisesExactlyWhenTotalExceedsLimit ==
    SizeGuardRan =>
        /\ SlugRecords # {}
        /\ CountedTotal > StoredMaxSize => raised = SizeError(StoredMaxSize)
        /\ CountedTotal <= StoredMaxSize =>
              IF op = "clean"
              THEN Calls("validate_uploaded_files") # {} /\ raised = classifier_result.error
              ELSE raised = NoError

\* A 100 MB upload was refused against a stored limit of 1280 bytes: "1.2 KB".
C1_Witness ==
    /\ op = "validate_files_sum_of_sizes"
    /\ StoredMaxSize = 1280
    /\ CountedTotal = 2 * SizeUnit
    /\ raised = [type |-> "ValidationError", text |-> SizeErrorText,
                 limit |-> [int |-> 1, frac |-> 2, unit |-> "KB"]]

\* C2: a size check that finds no record with slug total_upload_size_sum
\* creates one record with that slug, compares the total against the max_size
\* of that new record, and leaves the record in the table.
C2_AbsentLimitCreatedAndUsed ==
    [][(op = "building" /\ op' # "building" /\ trace' # <<>> /\ SlugRecords = {}) =>
          \E r \in limits' \ limits :
              /\ r.slug = "total_upload_size_sum"
              /\ limits' = limits \cup {r}
              /\ created' = created + 1
              /\ Calls("create_default_limit")' # {}
              /\ CountedTotal' > r.max_size <=> raised' = SizeError(r.max_size)
              /\ CountedTotal' > r.max_size <=> raised'.text = SizeErrorText]_vars

\* The first check of a deployment created the default and refused 150 MB: "100.0 MB".
C2_Witness ==
    /\ op = "validate_files_sum_of_sizes"
    /\ trace = <<"UploadSizeLimit.objects.get", "create_default_limit">>
    /\ created = 1
    /\ UploadSizeLimit("total_upload_size_sum", 104857600) \in limits
    /\ CountedTotal = 3 * SizeUnit
    /\ raised.limit = [int |-> 100, frac |-> 0, unit |-> "MB"]

\* C3: the total computed by _get_uploaded_files_total_size is the sum of the
\* sizes of every submitted file not under zip_file or shp_file: base_file and
\* every other field count once, the two excluded fields count nothing.
C3_TotalSkipsZipAndShpOnly ==
    SizeGuardRan => total_size = CountedTotal

\* All four fields submitted, the excluded two being the larger files.
C3_Witness ==
    /\ SizeGuardRan
    /\ field_names(files) = {"base_file", "dbf_file", "zip_file", "shp_file"}
    /\ file_of(files, "zip_file").size = 2 * SizeUnit
    /\ file_of(files, "shp_file").size = 2 * SizeUnit
    /\ file_of(files, "base_file").size = SizeUnit
    /\ file_of(files, "dbf_file").size = SizeUnit
    /\ total_size = 2 * SizeUnit

\* C7: in LayerUploadForm.clean the first failure ends the checks, in the
\* order field validation, size guard, classifier: with field errors no limit
\* is looked up or created and the classifier is not called; when the size
\* guard raises the classifier is not called and valid_extensions is not set;
\* the classifier is called only after the size guard passed.
C7_CleanState ==
    op = "clean" =>
        /\ FieldErrors =>
              /\ trace = <<>>
              /\ total_size = -1
              /\ classifier_args = <<>>
              /\ raised = NoError
              /\ "valid_extensions" \notin DOMAIN cleaned
        /\ raised.text = SizeErrorText =>
              /\ Calls("validate_uploaded_files") = {}
              /\ classifier_args = <<>>
              /\ "valid_extensions" \notin DOMAIN cleaned
        /\ (classifier_args # <<>> \/ Calls("validate_uploaded_files") # {}) =>
              /\ ~FieldErrors
              /\ SlugRecords # {}
              /\ CountedTotal <= StoredMaxSize
              /\ trace[1] = "UploadSizeLimit.objects.get"
              /\ Calls("validate_uploaded_files") = {Len(trace)}

C7_FirstFailureShortCircuits ==
    /\ []C7_CleanState
    /\ [][(op = "building" /\ op' = "clean" /\ FieldErrors) =>
             (limits' = limits /\ created' = created)]_vars

\* clean stopped at the size guard: both files validated, the limit was read, no classifier call.
C7_Witness ==
    /\ op = "clean"
    /\ ~FieldErrors
    /\ field_names(files) = {"base_file", "dbf_file"}
    /\ trace = <<"UploadSizeLimit.objects.get">>
    /\ raised.text = SizeErrorText
    /\ classifier_args = <<>>

\* C8: when field validation and the size guard pass, clean calls the
\* classifier once, with the cleaned data, the files of every submitted field
\* except base_file and the fixed spatial_files names, and stores the value it
\* returns in cleaned["valid_extensions"]; if the classifier raises, its error
\* is the outcome and valid_extensions is not set.
C8_ClassifierCalledOnceAndResultStored ==
    (op = "clean" /\ ~FieldErrors) =>
        /\ SlugRecords # {}
        /\ CountedTotal <= StoredMaxSize =>
              /\ Len(classifier_args) = 1
              /\ Cardinality(Calls("validate_uploaded_files")) = 1
              /\ LET call == classifier_args[1]
                     others == field_names(files) \ {"base_file"}
                 IN  /\ DOMAIN call.cleaned = DOMAIN cleaned \ {"valid_extensions"}
                     /\ \A k \in DOMAIN call.cleaned : call.cleaned[k] = cleaned[k]
                     /\ call.cleaned["base_file"] = file_of(files, "base_file")
                     /\ Len(call.uploaded_files) = Cardinality(others)
                     /\ {call.uploaded_files[i] : i \in 1..Len(call.uploaded_files)}
                            = {file_of(files, f) : f \in others}
                     /\ call.field_spatial_types =
                            IF ogc_geoserver
                            THEN <<"base_file", "dbf_file", "shx_file", "prj_file",
                                   "xml_file", "sld_file">>
                            ELSE <<"base_file", "dbf_file", "shx_file", "prj_file",
                                   "xml_file">>
              /\ IF classifier_result.raises
                 THEN /\ raised = classifier_result.error
                      /\ raised # NoError
                      /\ "valid_extensions" \notin DOMAIN cleaned
                 ELSE /\ raised = NoError
                      /\ "valid_extensions" \in DOMAIN cleaned
                      /\ cleaned["valid_extensions"] = classifier_result.value

\* A bundle of four files passed: the classifier got the three that are not base_file.
C8_Witness ==
    /\ op = "clean"
    /\ Len(files) = 4
    /\ Len(classifier_args) = 1
    /\ Len(classifier_args[1].uploaded_files) = 3
    /\ raised = NoError
    /\ cleaned["valid_extensions"] = {"shp", "shx", "prj", "dbf"}

\* C10: over any sequence of validations the size-limit record is read or
\* created, never updated or duplicated: once it exists every check compares
\* against it and leaves the table as it is; a record is created only when none
\* exists, so at most one is ever created, whether checks pass or fail.
C10_LimitRecordReadOrCreatedOnly ==
    /\ [](created <= 1 /\ Cardinality(SlugRecords) <= 1)
    /\ [][/\ SlugRecords # {} =>
                /\ limits' = limits
                /\ created' = created
                /\ (op = "building" /\ trace' # <<>>) =>
                      /\ Calls("create_default_limit")' = {}
                      /\ CountedTotal' > StoredMaxSize <=> raised'.text = SizeErrorText
          /\ limits' # limits =>
                /\ SlugRecords = {}
                /\ limits \subseteq limits'
                /\ Cardinality(limits' \ limits) = 1
                /\ created' = created + 1]_vars

\* A later request was refused against the record an earlier request had created.
C10_Witness ==
    /\ created = 1
    /\ op = "clean"
    /\ trace = <<"UploadSizeLimit.objects.get">>
    /\ raised = SizeError(104857600)
    /\ Cardinality(SlugRecords) = 1

(***************************************************************************)
(* Properties of TimeForm                                                  *)
(***************************************************************************)
Built == tf_step \in {"built", "cleaned"}

\* How often a name occurs in a list
Count(seq, a) == Cardinality({i \in 1..Len(seq) : seq[i] = a})

\* field is a choice field over the names of items: the empty option first,
\* then every name of items, as often as it occurs there, in ascending order.
IsSortedChoiceOf(field, items) ==
    LET c == field.choices
    IN  /\ field.type = "ChoiceField"
        /\ Len(c) = Len(items) + 1
        /\ c[1] = <<"", "<None>">>
        /\ \A i \in 2..Len(c) : c[i][2] = c[i][1]
        /\ \A i \in 2..(Len(c) - 1) : rank(c[i][1]) <= rank(c[i + 1][1])
        /\ \A j \in 1..Len(items) :
              Cardinality({i \in 2..Len(c) : c[i][1] = items[j]}) = Count(items, items[j])

NameCategories ==
    {<<"time_names", "time_attribute", "end_time_attribute">>,
     <<"text_names", "text_attribute", "end_text_attribute">>,
     <<"year_names", "year_attribute", "end_year_attribute">>}

\* C9: construction adds, for each name list that is non-empty, the start and
\* the end choice field of its category, with the empty option first and the
\* names in ascending order; for a list that is None or empty it adds neither;
\* the two format fields are present exactly when text names is non-empty.
C9_ChoiceFieldsPerNonEmptyList ==
    Built =>
        /\ \A cat \in NameCategories :
              LET arg == kwargs[cat[1]]
              IN  IF ~arg.is_none /\ Len(arg.items) > 0
                  THEN /\ cat[2] \in DOMAIN fields
                       /\ cat[3] \in DOMAIN fields
                       /\ IsSortedChoiceOf(fields[cat[2]], arg.items)
                       /\ IsSortedChoiceOf(fields[cat[3]], arg.items)
                  ELSE cat[2] \notin DOMAIN fields /\ cat[3] \notin DOMAIN fields
        /\ LET text == ~kwargs.text_names.is_none /\ Len(kwargs.text_names.items) > 0
           IN  /\ "text_attribute_format" \in DOMAIN fields <=> text
               /\ "end_text_attribute_format" \in DOMAIN fields <=> text

\* Time names passed out of order, text names None, year names empty.
C9_Witness ==
    /\ tf_step = "built"
    /\ kwargs.time_names = [is_none |-> FALSE, items |-> <<"reported", "observed">>]
    /\ kwargs.text_names.is_none
    /\ kwargs.year_names = [is_none |-> FALSE, items |-> <<>>]
    /\ fields["end_time_attribute"].choices =
          <<<<"", "<None>">>, <<"observed", "observed">>, <<"reported", "reported">>>>
    /\ DOMAIN fields = {"presentation_strategy", "precision_value", "precision_step",
                        "time_attribute", "end_time_attribute"}

StartFields == {"time_attribute", "text_attribute", "year_attribute"}

EndFields == {"end_time_attribute", "end_text_attribute", "end_year_attribute"}

\* The candidates of a role that were selected in the data cd
SelectedIn(cd, role) == {f \in role \cap DOMAIN cd : cd[f] # ""}

MultipleStart ==
    [type |-> "ValidationError", text |-> "multiple start attributes", limit |-> NoFormat]

MultipleEnd ==
    [type |-> "ValidationError", text |-> "multiple end attributes", limit |-> NoFormat]

\* C4 as stated: more than one start selection raises 'multiple start
\* attributes', more than one end selection raises 'multiple end attributes',
\* and at most one selection per role raises nothing.
C4_Original ==
    tf_step = "cleaned" =>
        /\ Cardinality(SelectedIn(selected, StartFields)) >= 2 => tf_raised = MultipleStart
        /\ Cardinality(SelectedIn(selected, EndFields)) >= 2 => tf_raised = MultipleEnd
        /\ (Cardinality(SelectedIn(selected, StartFields)) <= 1
               /\ Cardinality(SelectedIn(selected, EndFields)) <= 1) => tf_raised = NoError

\* C4 (amended): clean fails whenever a role has more than one selection: more
\* than one start selection raises 'multiple start attributes'; more than one
\* end selection raises 'multiple end attributes' when the start role has at
\* most one selection (start is checked first, and its error is the one
\* raised); at most one selection per role raises nothing.
C4_MultipleSelectionsRaise ==
    tf_step = "cleaned" =>
        /\ Cardinality(SelectedIn(selected, StartFields)) >= 2 => tf_raised = MultipleStart
        /\ (Cardinality(SelectedIn(selected, StartFields)) <= 1
               /\ Cardinality(SelectedIn(selected, EndFields)) >= 2) => tf_raised = MultipleEnd
        /\ (Cardinality(SelectedIn(selected, StartFields)) <= 1
               /\ Cardinality(SelectedIn(selected, EndFields)) <= 1) => tf_raised = NoError

\* Both roles have two selections: the start error is the one raised.
C4_Witness ==
    /\ tf_step = "cleaned"
    /\ Cardinality(SelectedIn(selected, StartFields)) = 2
    /\ Cardinality(SelectedIn(selected, EndFields)) = 2
    /\ tf_raised = MultipleStart

TypeOfField ==
    [f \in StartFields \cup EndFields |->
        IF f \in {"time_attribute", "end_time_attribute"} THEN "Date"
        ELSE IF f \in {"text_attribute", "end_text_attribute"} THEN "Text"
        ELSE "Number"]

\* The key of a role records the role's one selection, or is absent without one
RoleRecorded(role, key) ==
    LET sel == SelectedIn(selected, role)
    IN  /\ Cardinality(sel) = 1 =>
              /\ key \in DOMAIN cleaned_data
              /\ \A f \in sel : cleaned_data[key] = <<selected[f], TypeOfField[f]>>
        /\ Cardinality(sel) = 0 => key \notin DOMAIN cleaned_data

\* C5 as stated: a role with exactly one selection has its (name, type) pair
\* recorded under start_attribute / end_attribute; a role without a selection
\* has no key added.
C5_Original ==
    tf_step = "cleaned" =>
        /\ RoleRecorded(StartFields, "start_attribute")
        /\ RoleRecorded(EndFields, "end_attribute")

\* C5 (amended): when clean raises no error, a role with exactly one selection
\* has its (name, type) pair recorded, and a role without a selection has no
\* key added; when clean raises (some role has more than one selection),
\* neither key is added and the other data is left as it was.
C5_ResolvedPairRecorded ==
    tf_step = "cleaned" =>
        /\ \A f \in DOMAIN selected : f \in DOMAIN cleaned_data /\ cleaned_data[f] = selected[f]
        /\ DOMAIN cleaned_data \subseteq DOMAIN selected \cup {"start_attribute", "end_attribute"}
        /\ tf_raised = NoError =>
              /\ RoleRecorded(StartFields, "start_attribute")
              /\ RoleRecorded(EndFields, "end_attribute")
        /\ tf_raised # NoError =>
              /\ "start_attribute" \notin DOMAIN cleaned_data
              /\ "end_attribute" \notin DOMAIN cleaned_data

\* The year field was selected for start and nothing for end.
C5_Witness ==
    /\ tf_step = "cleaned"
    /\ tf_raised = NoError
    /\ SelectedIn(selected, StartFields) = {"year_attribute"}
    /\ SelectedIn(selected, EndFields) = {}
    /\ EndFields \subseteq DOMAIN selected
    /\ cleaned_data["start_attribute"] = <<"reported", "Number">>
    /\ "end_attribute" \notin DOMAIN cleaned_data

\* What clean did for a role: "multiple" (its error raised), or what it recorded
RoleOutcome(err, cd, role_error, key) ==
    IF err = role_error THEN <<"multiple">>
    ELSE IF key \in DOMAIN cd THEN <<"recorded", cd[key]>>
    ELSE <<"not recorded">>

\* The data the form admits that agree with the data cleaned on the fields of a
\* role: every other attribute field takes any of its choices.
SameSelections(role) ==
    LET others == DOMAIN selected \ role
        values == UNION {choice_values(fields[f]) : f \in others}
    IN  {[f \in DOMAIN selected |-> IF f \in others THEN o[f] ELSE selected[f]] :
            o \in {x \in [others -> values] :
                      \A f \in others : x[f] \in choice_values(fields[f])}}

\* C6 as stated: the outcome for a role (pair recorded, nothing recorded, or
\* the role's error) is determined by the role's own three selections alone.
C6_Original ==
    tf_step = "cleaned" =>
        /\ \A alt \in SameSelections(StartFields) :
              LET r == time_clean(alt)
              IN  RoleOutcome(r.raised, r.cleaned_data, MultipleStart, "start_attribute")
                    = RoleOutcome(tf_raised, cleaned_data, MultipleStart, "start_attribute")
        /\ \A alt \in SameSelections(EndFields) :
              LET r == time_clean(alt)
              IN  RoleOutcome(r.raised, r.cleaned_data, MultipleEnd, "end_attribute")
                    = RoleOutcome(tf_raised, cleaned_data, MultipleEnd, "end_attribute")

\* C6 (amended): each role is resolved from its own three selections: whether
\* 'multiple start attributes' is raised is determined by the start selections
\* alone; whether 'multiple end attributes' is raised is determined by the end
\* selections alone among data with at most one start selection; and among
\* data for which clean raises nothing, what is recorded for a role is
\* determined by that role's selections alone.  An error of either role keeps
\* both keys from being recorded.
C6_RolesResolvedFromOwnSelections ==
    tf_step = "cleaned" =>
        /\ \A alt \in SameSelections(StartFields) :
              LET r == time_clean(alt)
              IN  /\ (r.raised = MultipleStart) <=> (tf_raised = MultipleStart)
                  /\ (r.raised = NoError /\ tf_raised = NoError) =>
                        RoleOutcome(r.raised, r.cleaned_data, MultipleStart, "start_attribute")
                          = RoleOutcome(tf_raised, cleaned_data, MultipleStart, "start_attribute")
        /\ \A alt \in SameSelections(EndFields) :
              LET r == time_clean(alt)
              IN  /\ (r.raised # MultipleStart /\ tf_raised # MultipleStart) =>
                        ((r.raised = MultipleEnd) <=> (tf_raised = MultipleEnd))
                  /\ (r.raised = NoError /\ tf_raised = NoError) =>
                        RoleOutcome(r.raised, r.cleaned_data, MultipleEnd, "end_attribute")
                          = RoleOutcome(tf_raised, cleaned_data, MultipleEnd, "end_attribute")
        /\ tf_raised # NoError =>
              /\ "start_attribute" \notin DOMAIN cleaned_data
              /\ "end_attribute" \notin DOMAIN cleaned_data

\* One start selection was not recorded because end had two selections.
C6_Witness ==
    /\ tf_step = "cleaned"
    /\ Cardinality(SelectedIn(selected, StartFields)) = 1
    /\ Cardinality(SelectedIn(selected, EndFields)) = 2
    /\ tf_raised = MultipleEnd
    /\ "start_attribute" \notin DOMAIN cleaned_data


====
